---------------------------- MODULE Spec2Model ----------------------------
(***************************************************************************)
(* A model of metno_fetch_vaa.py: the HTML extractors (VAAParser,          *)
(* ToulouseFetcher.ListParser, LondonFetcher.TableParser, Parser) driven   *)
(* by the tag events html.parser delivers, the fetchers that assemble      *)
(* list-widget records from the extracted entries, and the conversion of   *)
(* the checked records by Window.convertAdvisories.                        *)
(*                                                                         *)
(* Strings.  A Python str is modelled as a sequence of tokens; a token is  *)
(* a TLA+ string standing for the characters it spells.  The phrases the   *)
(* regular expressions of the program look for ("VA ADVISORY",             *)
(* "NXT ADVISORY:", a timestamp, ".html", "/") are single tokens, and the  *)
(* remaining tokens are a word ("w", "v"), punctuation ("-"), a space and  *)
(* a newline, so that on every modelled string a regular expression        *)
(* matches exactly at token boundaries.  str.strip, str.split,             *)
(* str.replace, re.search are operators on these sequences.                *)
(***************************************************************************)
EXTENDS Integers, Sequences, FiniteSets, TLC

VARIABLES
    \* ---- one extractor instance and the page fed to it
    kind,           \* which extractor class the instance is
    nEvents,        \* number of tag events delivered so far (all feeds)
    ev,             \* the last event delivered (history variable)
    vaa_active,     \* VAAParser.active
    vaa_text,       \* VAAParser.text
    vaa_terminated, \* history: the NXT ADVISORY line was found at least once
    lp_active,      \* ListParser.active
    lp_href,        \* ListParser.href
    lp_text,        \* ListParser.text
    lp_anchors,     \* ListParser.anchors
    lp_depth,       \* history: number of <ul> elements currently open
    tp_href,        \* TableParser.href
    tp_text,        \* TableParser.text
    tp_row,         \* TableParser.row
    tp_rows,        \* TableParser.rows
    tp_discarded,   \* history: rows a <tbody> start has removed from rows
    p_href,         \* Parser.href
    p_text,         \* Parser.text: identity of the list it is bound to
    p_table_row,    \* Parser.table_row: identity of the list it is bound to
    p_anchors,      \* Parser.anchors: tuples (href, text list, row list)
    p_lists,        \* the text lists Parser has created (lists of str)
    p_rowlists,     \* the row lists Parser has created (lists of text lists)
    h_open,         \* history: a row / list item has started and not closed
    h_mark,         \* history: entries in the result when that row started
    h_data,         \* history: tokens of the text delivered inside that row
    h_hrefs,        \* history: hrefs of the anchors started inside that row
    feedNo,         \* number of feed() calls made on the instance
    buf,            \* the events of the first feed (recorded for a second feed)
    pos,            \* second feed: number of events of buf replayed
    first,          \* the result the first feed left
    \* ---- one fetcher filling the list widget of the window
    fetcher,        \* the fetcher chosen in the menu
    entries,        \* what the list extractor returned (p.anchors, p.rows) or,
                    \* for TestFetcher, the text read from its URL
    files,          \* names of the files existing in the output directory
    now,            \* the clock: minutes passed since the program started
    run,            \* "first" or "second" fetch from the same source
    prev,           \* the records the first fetch left in the list
    pc,             \* "idle", "fetch", "done" (returned) or "raised"
    idx,            \* number of entries the loop of fetch() has taken
    count,          \* the local variable count of fetch()
    vaaList,        \* the records (QListWidgetItem) in Window.vaaList
    exc,            \* the exception that ended fetch() or convertAdvisories(),
                    \* and where it was raised
    \* ---- the conversion of the checked records
    checked,        \* rows of vaaList whose check box is ticked
    workLog         \* the entries updateWorkLog has written to the log viewer

pvars == <<kind, nEvents, ev, vaa_active, vaa_text, vaa_terminated,
           lp_active, lp_href, lp_text, lp_anchors, lp_depth,
           tp_href, tp_text, tp_row, tp_rows, tp_discarded,
           p_href, p_text, p_table_row, p_anchors, p_lists, p_rowlists,
           h_open, h_mark, h_data, h_hrefs,
           feedNo, buf, pos, first>>

fvars == <<fetcher, entries, files, now, run, prev, pc, idx, count, vaaList, exc>>

cvars == <<checked, workLog>>

vars == <<pvars, fvars, cvars>>

-----------------------------------------------------------------------------
(* Bounds *)

\* events delivered to one extractor instance in a single-feed run
MaxEvents == 5
\* events of the buffer that is fed twice
MaxBuf == 3
\* entries a list page holds
MaxEntries == 3
\* Fetcher.number_to_fetch: 10 in ToulouseFetcher, AnchorageFetcher and
\* LondonFetcher; scaled down so that a page can hold more entries than it
number_to_fetch == 2
\* minutes the clock may advance
MaxClock == 1

-----------------------------------------------------------------------------
(* str operations *)

Min(a, b) == IF a < b THEN a ELSE b

WhiteSpace == {" ", "\n"}

\* tokens whose first character is a word character (\w)
WordStart == {"w", "v", "VA ADVISORY", "VA EXTENDED ADVISORY", "NXT ADVISORY:"}

RECURSIVE lstrip(_)
lstrip(s) ==
    IF s # <<>> /\ Head(s) \in WhiteSpace THEN lstrip(Tail(s)) ELSE s

RECURSIVE rstrip(_)
rstrip(s) ==
    IF s # <<>> /\ s[Len(s)] \in WhiteSpace
    THEN rstrip(SubSeq(s, 1, Len(s) - 1)) ELSE s

strip(s) == rstrip(lstrip(s))

\* s[i:] and s[:i] for a 0-based Python index i
From(s, i) == SubSeq(s, i + 1, Len(s))
UpTo(s, i) == SubSeq(s, 1, i)


\* the least element of a non-empty set of integers
Least(S) == CHOOSE x \in S : \A y \in S : x <= y

-----------------------------------------------------------------------------
(* Tag events: what html.parser.HTMLParser.feed delivers to the handlers.  *)
(* attrs is the list of (name, value) pairs of a start tag.                *)

StartEv(tag, attrs) == [kind |-> "start", tag |-> tag, attrs |-> attrs, data |-> <<>>]
DataEv(data)        == [kind |-> "data",  tag |-> "",  attrs |-> <<>>,  data |-> data]
EndEv(tag)          == [kind |-> "end",   tag |-> tag, attrs |-> <<>>,  data |-> <<>>]
NoEv                == [kind |-> "none",  tag |-> "",  attrs |-> <<>>,  data |-> <<>>]

\* dict(attrs): "href" in d, and d["href"] (the last pair with that name)
HasKey(attrs, k) == \E i \in 1..Len(attrs) : attrs[i][1] = k
Lookup(attrs, k) ==
    attrs[CHOOSE i \in 1..Len(attrs) :
            /\ attrs[i][1] = k
            /\ \A j \in (i+1)..Len(attrs) : attrs[j][1] # k][2]

-----------------------------------------------------------------------------
(* VAAParser *)

\* the text chunks a page may hold (before strip)
VaaChunks ==
    { <<"w">>,
      <<" ", "\n">>,
      <<"w", " ", "VA ADVISORY", " ", "w">>,
      <<"VA EXTENDED ADVISORY">>,
      <<"NXT ADVISORY:", " ", "w">>,
      <<"NXT ADVISORY:", "\n", "w", "\n", "w">> }

VaaStartTags == {"p"}
\* a tag of the list in handle_endtag, and one that is not
VaaEndTags == {"p", "b"}

StructuralTags == {"h1", "h2", "h3", "div", "p", "br", "code"}

VaaHeaders == {"VA ADVISORY", "VA EXTENDED ADVISORY"}

\* re.search("VA (EXTENDED )?ADVISORY", data): m.start() as a 0-based index,
\* -1 when there is no match
HeaderSearch(data) ==
    LET hits == {i \in 1..Len(data) : data[i] \in VaaHeaders}
    IN  IF hits = {} THEN -1 ELSE Least(hits) - 1

\* "NXT ADVISORY:\s*\w+.*?\n" matched at token i of s: after the phrase and
\* any whitespace (newlines included) comes a word character, and a newline
\* follows later; "." does not match a newline, so the match ends at the
\* first newline after the word.
NxtWord(s, i) ==
    LET rest == {j \in (i+1)..Len(s) : s[j] \notin WhiteSpace}
    IN  IF rest = {} THEN 0 ELSE Least(rest)

NxtAt(s, i) ==
    /\ s[i] = "NXT ADVISORY:"
    /\ NxtWord(s, i) # 0
    /\ s[NxtWord(s, i)] \in WordStart
    /\ \E k \in (NxtWord(s, i)+1)..Len(s) : s[k] = "\n"

\* re.search("NXT ADVISORY:\s*\w+.*?\n", text): m.end(), 0 when no match
NxtSearch(s) ==
    LET hits == {i \in 1..Len(s) : NxtAt(s, i)}
    IN  IF hits = {} THEN 0
        ELSE LET j == NxtWord(s, Least(hits))
             IN  Least({k \in (j+1)..Len(s) : s[k] = "\n"})

\* VAAParser.__init__
VAAParser_init ==
    /\ vaa_active = FALSE
    /\ vaa_text = <<>>
    /\ vaa_terminated = FALSE

\* VAAParser.feed resets self.anchors, which no handler of the class reads
VAAParser_feed == UNCHANGED <<vaa_active, vaa_text, vaa_terminated>>

VAAParser_handle_starttag(tag, attrs) ==
    UNCHANGED <<vaa_active, vaa_text, vaa_terminated>>

VAAParser_handle_data(raw) ==
    LET data == strip(raw)
        m    == HeaderSearch(data)
    IN  /\ UNCHANGED vaa_terminated
        /\ IF Len(data) > 0
           THEN IF vaa_active
                THEN /\ vaa_text' = vaa_text \o data \o <<" ">>
                     /\ UNCHANGED vaa_active
                ELSE IF m # -1
                     THEN /\ vaa_active' = TRUE
                          /\ vaa_text' = From(data, m)
                     ELSE UNCHANGED <<vaa_active, vaa_text>>
           ELSE UNCHANGED <<vaa_active, vaa_text>>

VAAParser_handle_endtag(tag) ==
    IF vaa_active
    THEN LET t == IF tag \in StructuralTags
                  THEN rstrip(vaa_text) \o <<"\n">>
                  ELSE vaa_text
             m == NxtSearch(t)
         IN  IF m # 0
             THEN /\ vaa_text' = UpTo(t, m)
                  /\ vaa_active' = FALSE
                  /\ vaa_terminated' = TRUE
             ELSE /\ vaa_text' = t
                  /\ UNCHANGED <<vaa_active, vaa_terminated>>
    ELSE UNCHANGED <<vaa_active, vaa_text, vaa_terminated>>

vaaVars == <<vaa_active, vaa_text, vaa_terminated>>

-----------------------------------------------------------------------------
(* ToulouseFetcher.ListParser *)

\* hrefs of the advisories of a list page
Href1 == <<"http:", "/", "/", "vaac", "/", "20200501", "/", "f.html">>
Href2 == <<"http:", "/", "/", "vaac", "/", "20200502", "/", "f.html">>

\* timestamps of the form \d\d\d\d-\d\d-\d\d \d\d:\d\d
ListDates == {"2020-05-01 12:00", "2020-05-02 13:30"}

ListChunks ==
    { <<"v">>,
      <<"v", " ", "-", " ", "2020-05-01 12:00", " ", "utc">>,
      <<"v", "\n", "v", " ", "-", " ", "2020-05-02 13:30", " ", "utc", " ">> }

ListStartEvents ==
    { StartEv("ul", <<>>), StartEv("li", <<>>), StartEv("a", <<>>),
      StartEv("a", << <<"href", Href1>> >>),
      StartEv("a", << <<"href", Href2>> >>) }

ListEndTags == {"ul", "li", "a"}

\* " - <timestamp> utc" starts at token i of s
DateAt(s, i) ==
    /\ i + 5 <= Len(s)
    /\ s[i] = " " /\ s[i+1] = "-" /\ s[i+2] = " "
    /\ s[i+3] \in ListDates
    /\ s[i+4] = " " /\ s[i+5] = "utc"

\* tokens a..i-1 can be group 1: "." does not match a newline
OneLine(s, a, i) == \A k \in a..(i-1) : s[k] # "\n"

\* re.search(r"(.*) - (\d\d\d\d-\d\d-\d\d \d\d:\d\d) utc", text): the leftmost
\* start a from which the pattern matches, and from it the longest group 1
\* (the last " - <timestamp> utc" of that line).  <<>> when there is no match,
\* else <<group(1), group(2)>>.
ListSearch(s) ==
    LET ends(a) == {i \in a..Len(s) : DateAt(s, i) /\ OneLine(s, a, i)}
        starts  == {a \in 1..Len(s) : ends(a) # {}}
    IN  IF starts = {} THEN <<>>
        ELSE LET a == Least(starts)
                 i == CHOOSE x \in ends(a) : \A y \in ends(a) : y <= x
             IN  << SubSeq(s, a, i - 1), <<s[i+3]>> >>

lpVars == <<lp_active, lp_href, lp_text, lp_anchors, lp_depth>>

\* ListParser.__init__
ListParser_init ==
    /\ lp_active = FALSE
    /\ lp_href = <<>>
    /\ lp_text = <<>>
    /\ lp_anchors = <<>>
    /\ lp_depth = 0

\* ListParser.feed resets nothing
ListParser_feed == UNCHANGED lpVars

ListParser_handle_starttag(tag, attrs) ==
    LET active == IF tag = "ul" THEN TRUE ELSE lp_active
    IN  /\ lp_active' = active
        /\ lp_depth' = IF tag = "ul" THEN lp_depth + 1 ELSE lp_depth
        /\ lp_href' = IF active /\ tag = "a" /\ HasKey(attrs, "href")
                      THEN Lookup(attrs, "href") ELSE lp_href
        /\ UNCHANGED <<lp_text, lp_anchors>>

ListParser_handle_data(data) ==
    /\ lp_text' = IF lp_active THEN lp_text \o strip(data) ELSE lp_text
    /\ UNCHANGED <<lp_active, lp_href, lp_anchors, lp_depth>>

ListParser_handle_endtag_AnyTag(tag) ==
    LET active == IF tag = "ul" THEN FALSE ELSE lp_active
        match  == ListSearch(lp_text)
    IN  /\ lp_active' = active
        /\ lp_depth' = IF tag = "ul" /\ lp_depth > 0 THEN lp_depth - 1 ELSE lp_depth
        /\ IF active
           THEN /\ lp_anchors' = IF match # <<>>
                                 THEN Append(lp_anchors, <<lp_href, match[1], match[2]>>)
                                 ELSE lp_anchors
                /\ lp_href' = <<>>
                /\ lp_text' = <<>>
           ELSE UNCHANGED <<lp_href, lp_text, lp_anchors>>

ListParser_handle_endtag(tag) ==
    LET active == IF tag = "ul" THEN FALSE ELSE lp_active
        match  == ListSearch(lp_text)
    IN  /\ lp_active' = active
        /\ lp_depth' = IF tag = "ul" /\ lp_depth > 0 THEN lp_depth - 1 ELSE lp_depth
        /\ IF active /\ tag = "li"
           THEN /\ lp_anchors' = IF match # <<>>
                                 THEN Append(lp_anchors, <<lp_href, match[1], match[2]>>)
                                 ELSE lp_anchors
                /\ lp_href' = <<>>
                /\ lp_text' = <<>>
           ELSE UNCHANGED <<lp_href, lp_text, lp_anchors>>

-----------------------------------------------------------------------------
(* LondonFetcher.TableParser *)

TableHref == <<"data", "/", "a1.html">>

TableChunks ==
    { <<"v">>,
      <<" ", "w", "\n">> }

\* <tbody> and <a> are the start tags the class looks at; <tr> is one it
\* ignores
TableStartEvents ==
    { StartEv("tbody", <<>>), StartEv("tr", <<>>), StartEv("a", <<>>),
      StartEv("a", << <<"href", TableHref>> >>) }

TableEndTags == {"td", "tr"}

tpVars == <<tp_href, tp_text, tp_row, tp_rows, tp_discarded>>

\* TableParser.__init__
TableParser_init ==
    /\ tp_href = <<>>
    /\ tp_text = <<>>
    /\ tp_row = <<>>
    /\ tp_rows = <<>>
    /\ tp_discarded = 0

\* TableParser.feed: self.rows = []
TableParser_feed ==
    /\ tp_rows' = <<>>
    /\ UNCHANGED <<tp_href, tp_text, tp_row, tp_discarded>>

TableParser_handle_starttag_KeepRows(tag, attrs) ==
    /\ tp_href' = IF tag = "a" /\ HasKey(attrs, "href") THEN Lookup(attrs, "href")
                  ELSE IF tag = "tbody" THEN <<>> ELSE tp_href
    /\ tp_text' = IF tag = "tbody" THEN <<>> ELSE tp_text
    /\ tp_row'  = IF tag = "tbody" THEN <<>> ELSE tp_row
    /\ UNCHANGED <<tp_rows, tp_discarded>>

TableParser_handle_starttag(tag, attrs) ==
    /\ tp_href' = IF tag = "a" /\ HasKey(attrs, "href") THEN Lookup(attrs, "href")
                  ELSE IF tag = "tbody" THEN <<>> ELSE tp_href
    /\ tp_text' = IF tag = "tbody" THEN <<>> ELSE tp_text
    /\ tp_row'  = IF tag = "tbody" THEN <<>> ELSE tp_row
    /\ tp_rows' = IF tag = "tbody" THEN <<>> ELSE tp_rows
    /\ tp_discarded' = IF tag = "tbody" THEN tp_discarded + Len(tp_rows)
                       ELSE tp_discarded

TableParser_handle_data(data) ==
    /\ tp_text' = tp_text \o strip(data)
    /\ UNCHANGED <<tp_href, tp_row, tp_rows, tp_discarded>>

TableParser_handle_endtag(tag) ==
    LET row == IF tag = "td"
               THEN Append(tp_row, [text |-> tp_text, href |-> tp_href])
               ELSE tp_row
    IN  /\ tp_href' = IF tag = "td" THEN <<>> ELSE tp_href
        /\ tp_text' = IF tag = "td" THEN <<>> ELSE tp_text
        /\ tp_rows' = IF tag = "tr" /\ Len(row) > 0
                      THEN Append(tp_rows, row) ELSE tp_rows
        /\ tp_row'  = IF tag = "tr" THEN <<>> ELSE row
        /\ UNCHANGED tp_discarded

-----------------------------------------------------------------------------
(* Parser (the extractor of AnchorageFetcher).  self.text and              *)
(* self.table_row are Python lists: "self.text += [..]" and                *)
(* "self.table_row.append(..)" change the list object in place, and the    *)
(* tuple appended to self.anchors holds the two list objects themselves,   *)
(* so an entry changes with them until the attribute is bound to a new     *)
(* list.  A list object is its index in p_lists / p_rowlists.              *)

ParserHref == <<"VAA", "/", "f1.txt">>

ParserChunks ==
    { <<"X">>,
      <<" ", "v", "\n">> }

ParserStartEvents ==
    { StartEv("tr", <<>>), StartEv("a", <<>>),
      StartEv("a", << <<"href", ParserHref>> >>) }

ParserEndTags == {"a", "td", "tr"}

paVars == <<p_href, p_text, p_table_row, p_anchors, p_lists, p_rowlists>>

\* Parser.__init__
Parser_init ==
    /\ p_href = <<>>
    /\ p_lists = << <<>> >>
    /\ p_text = 1
    /\ p_rowlists = << <<>> >>
    /\ p_table_row = 1
    /\ p_anchors = <<>>

\* Parser.feed: self.anchors = []
Parser_feed ==
    /\ p_anchors' = <<>>
    /\ UNCHANGED <<p_href, p_text, p_table_row, p_lists, p_rowlists>>

Parser_handle_starttag(tag, attrs) ==
    IF tag = "a"
    THEN /\ p_href' = IF HasKey(attrs, "href") THEN Lookup(attrs, "href") ELSE <<>>
         /\ UNCHANGED <<p_text, p_table_row, p_anchors, p_lists, p_rowlists>>
    ELSE IF tag = "tr" \/ tag = "li"
    THEN /\ p_rowlists' = Append(p_rowlists, <<>>)
         /\ p_table_row' = Len(p_rowlists) + 1
         /\ UNCHANGED <<p_href, p_text, p_anchors, p_lists>>
    ELSE UNCHANGED paVars

Parser_handle_data(data) ==
    /\ p_lists' = [p_lists EXCEPT ![p_text] = Append(@, strip(data))]
    /\ UNCHANGED <<p_href, p_text, p_table_row, p_anchors, p_rowlists>>

Parser_handle_endtag(tag) ==
    IF tag = "a"
    THEN /\ p_anchors' = Append(p_anchors, <<p_href, p_text, p_table_row>>)
         /\ UNCHANGED <<p_href, p_text, p_table_row, p_lists, p_rowlists>>
    ELSE IF tag = "td" \/ tag = "li"
    THEN /\ p_rowlists' = [p_rowlists EXCEPT ![p_table_row] = Append(@, p_text)]
         /\ p_lists' = Append(p_lists, <<>>)
         /\ p_text' = Len(p_lists) + 1
         /\ UNCHANGED <<p_href, p_table_row, p_anchors>>
    ELSE UNCHANGED paVars

\* the value of an entry of self.anchors: (href, text, table_row) with the
\* lists as they are now
Parser_entry(a) ==
    << a[1],
       p_lists[a[2]],
       [i \in 1..Len(p_rowlists[a[3]]) |-> p_lists[p_rowlists[a[3]][i]]] >>

Parser_anchors == [i \in 1..Len(p_anchors) |-> Parser_entry(p_anchors[i])]

-----------------------------------------------------------------------------
(* An extractor instance scanning one page: p = Class(); p.feed(html).      *)
(* html.parser calls handle_starttag / handle_data / handle_endtag once    *)
(* per tag event of the page, in document order; a page may end after any  *)
(* event.                                                                  *)

Kinds == {"VAAParser", "ListParser", "TableParser", "Parser"}

\* no fetcher is running while a single extractor is examined
NoExc == [type |-> "", site |-> ""]

FetcherUnused ==
    /\ fetcher = "none"
    /\ entries = <<>>
    /\ files = {}
    /\ now = 0
    /\ run = "first"
    /\ prev = <<>>
    /\ pc = "idle"
    /\ idx = 0
    /\ count = 0
    /\ vaaList = <<>>
    /\ exc = NoExc
    /\ checked = {}
    /\ workLog = <<>>

\* no row or list item has started
NoHistory ==
    /\ h_open = FALSE
    /\ h_mark = 0
    /\ h_data = {}
    /\ h_hrefs = {}

hVars == <<h_open, h_mark, h_data, h_hrefs>>

\* the state after construction
InitParser ==
    /\ kind \in Kinds
    /\ nEvents = 0
    /\ ev = NoEv
    /\ VAAParser_init
    /\ ListParser_init
    /\ TableParser_init
    /\ Parser_init
    /\ NoHistory
    /\ feedNo = 0
    /\ buf = <<>>
    /\ pos = 0
    /\ first = <<>>

\* the extractor's result attribute (p.text, p.anchors, p.rows)
Result ==
    CASE kind = "VAAParser"   -> vaa_text
      [] kind = "ListParser"  -> lp_anchors
      [] kind = "TableParser" -> tp_rows
      [] kind = "Parser"      -> Parser_anchors

\* the feed() call of the instance's class
ClassFeed ==
    /\ kind = "VAAParser" => VAAParser_feed /\ UNCHANGED <<lpVars, tpVars, paVars>>
    /\ kind = "ListParser" => ListParser_feed /\ UNCHANGED <<vaaVars, tpVars, paVars>>
    /\ kind = "TableParser" => TableParser_feed /\ UNCHANGED <<vaaVars, lpVars, paVars>>
    /\ kind = "Parser" => Parser_feed /\ UNCHANGED <<vaaVars, lpVars, tpVars>>
    /\ UNCHANGED hVars

\* the tags that start and close a row (table extractors) or a list item
RowStart(e) ==
    /\ e.kind = "start"
    /\ \/ kind = "ListParser" /\ e.tag = "li"
       \/ kind = "TableParser" /\ e.tag = "tr"
       \/ kind = "Parser" /\ e.tag \in {"tr", "li"}

RowEnd(e) ==
    /\ e.kind = "end"
    /\ \/ kind = "ListParser" /\ e.tag = "li"
       \/ kind = "TableParser" /\ e.tag = "tr"
       \/ kind = "Parser" /\ e.tag \in {"tr", "li"}

\* the tokens of a str
Tokens(s) == {s[i] : i \in 1..Len(s)}

\* history of the row being scanned: what the page holds between the start
\* tag of the row and the event delivered last
History(e) ==
    /\ h_open' = IF RowStart(e) THEN TRUE ELSE IF RowEnd(e) THEN FALSE ELSE h_open
    /\ h_mark' = IF RowStart(e) THEN Len(Result) ELSE h_mark
    /\ h_data' = IF RowStart(e) \/ RowEnd(e) THEN {}
                 ELSE IF e.kind = "data" /\ h_open
                 THEN h_data \cup Tokens(strip(e.data)) ELSE h_data
    /\ h_hrefs' = IF RowStart(e) \/ RowEnd(e) THEN {}
                  ELSE IF e.kind = "start" /\ e.tag = "a" /\ h_open
                          /\ HasKey(e.attrs, "href")
                  THEN h_hrefs \cup {Lookup(e.attrs, "href")} ELSE h_hrefs

\* the handler of the instance's class for event e
Handle(e) ==
    /\ kind = "VAAParser" =>
          /\ e.kind = "start" => VAAParser_handle_starttag(e.tag, e.attrs)
          /\ e.kind = "data"  => VAAParser_handle_data(e.data)
          /\ e.kind = "end"   => VAAParser_handle_endtag(e.tag)
          /\ UNCHANGED <<lpVars, tpVars, paVars>>
    /\ kind = "ListParser" =>
          /\ e.kind = "start" => ListParser_handle_starttag(e.tag, e.attrs)
          /\ e.kind = "data"  => ListParser_handle_data(e.data)
          /\ e.kind = "end"   => ListParser_handle_endtag(e.tag)
          /\ UNCHANGED <<vaaVars, tpVars, paVars>>
    /\ kind = "TableParser" =>
          /\ e.kind = "start" => TableParser_handle_starttag(e.tag, e.attrs)
          /\ e.kind = "data"  => TableParser_handle_data(e.data)
          /\ e.kind = "end"   => TableParser_handle_endtag(e.tag)
          /\ UNCHANGED <<vaaVars, lpVars, paVars>>
    /\ kind = "Parser" =>
          /\ e.kind = "start" => Parser_handle_starttag(e.tag, e.attrs)
          /\ e.kind = "data"  => Parser_handle_data(e.data)
          /\ e.kind = "end"   => Parser_handle_endtag(e.tag)
          /\ UNCHANGED <<vaaVars, lpVars, tpVars>>
    /\ History(e)

\* the events a page for this extractor is made of
Events ==
    CASE kind = "VAAParser" ->
            {StartEv(t, <<>>) : t \in VaaStartTags}
            \cup {DataEv(d) : d \in VaaChunks}
            \cup {EndEv(t) : t \in VaaEndTags}
      [] kind = "ListParser" ->
            ListStartEvents
            \cup {DataEv(d) : d \in ListChunks}
            \cup {EndEv(t) : t \in ListEndTags}
      [] kind = "TableParser" ->
            TableStartEvents
            \cup {DataEv(d) : d \in TableChunks}
            \cup {EndEv(t) : t \in TableEndTags}
      [] kind = "Parser" ->
            ParserStartEvents
            \cup {DataEv(d) : d \in ParserChunks}
            \cup {EndEv(t) : t \in ParserEndTags}

\* p.feed(html): the only feed of the instance
feed ==
    /\ feedNo = 0
    /\ feedNo' = 1
    /\ ClassFeed
    /\ UNCHANGED <<kind, nEvents, ev, buf, pos, first>>
    /\ UNCHANGED <<fvars, cvars>>

\* one event of the page is delivered
Delivered(e) ==
    /\ feedNo = 1
    /\ nEvents < MaxEvents
    /\ nEvents' = nEvents + 1
    /\ ev' = e
    /\ UNCHANGED <<kind, feedNo, buf, pos, first>>
    /\ UNCHANGED <<fvars, cvars>>

handle_starttag ==
    \E e \in Events : e.kind = "start" /\ Handle(e) /\ Delivered(e)

handle_data ==
    \E e \in Events : e.kind = "data" /\ Handle(e) /\ Delivered(e)

handle_endtag ==
    \E e \in Events : e.kind = "end" /\ Handle(e) /\ Delivered(e)

Init == InitParser /\ FetcherUnused

Next ==
    \/ feed
    \/ handle_starttag
    \/ handle_data
    \/ handle_endtag

Spec == Init /\ [][Next]_vars

-----------------------------------------------------------------------------
(* The same instance fed the same buffer twice: p.feed(html); p.feed(html). *)

\* the first feed() call, and the second one once the first has returned
feed_again ==
    /\ feedNo < 2
    /\ feedNo' = feedNo + 1
    /\ first' = IF feedNo = 1 THEN Result ELSE first
    /\ pos' = 0
    /\ ClassFeed
    /\ UNCHANGED <<kind, nEvents, ev, buf>>
    /\ UNCHANGED <<fvars, cvars>>

\* first feed: the next event of the buffer
scan_first ==
    /\ feedNo = 1
    /\ Len(buf) < MaxBuf
    /\ \E e \in Events :
          /\ Handle(e)
          /\ buf' = Append(buf, e)
          /\ ev' = e
    /\ nEvents' = nEvents + 1
    /\ UNCHANGED <<kind, feedNo, pos, first>>
    /\ UNCHANGED <<fvars, cvars>>

\* second feed: the same events again
scan_second ==
    /\ feedNo = 2
    /\ pos < Len(buf)
    /\ Handle(buf[pos + 1])
    /\ ev' = buf[pos + 1]
    /\ pos' = pos + 1
    /\ nEvents' = nEvents + 1
    /\ UNCHANGED <<kind, feedNo, buf, first>>
    /\ UNCHANGED <<fvars, cvars>>

NextFeedTwice ==
    \/ feed_again
    \/ scan_first
    \/ scan_second

SpecFeedTwice == Init /\ [][NextFeedTwice]_vars

-----------------------------------------------------------------------------
(* More str operations, datetime, os.path and urllib.parse                 *)

\* s.split(sep): the list of the pieces of s between the separators
RECURSIVE Split(_, _)
Split(s, sep) ==
    IF s = <<>> THEN << <<>> >>
    ELSE LET rest == Split(Tail(s), sep)
         IN  IF Head(s) = sep
             THEN << <<>> >> \o rest
             ELSE << <<Head(s)>> \o Head(rest) >> \o Tail(rest)

\* sep.join(parts)
RECURSIVE Join(_, _)
Join(parts, sep) ==
    IF parts = <<>> THEN <<>>
    ELSE IF Len(parts) = 1 THEN parts[1]
    ELSE parts[1] \o <<sep>> \o Join(Tail(parts), sep)

\* "".join(parts)
RECURSIVE Concat(_)
Concat(parts) ==
    IF parts = <<>> THEN <<>> ELSE Head(parts) \o Concat(Tail(parts))

\* s.replace(old, new) for a one-token old
Replace(s, old, new) ==
    [i \in 1..Len(s) |-> IF s[i] = old THEN new ELSE s[i]]

endswith(s, suffix) == s # <<>> /\ s[Len(s)] = suffix
startswith(s, prefix) == s # <<>> /\ s[1] = prefix

\* a list index from the end: l[-k]
FromEnd(l, k) == l[Len(l) + 1 - k]

\* a datetime is a record [ymd, hm]; the tables give, for the spellings of
\* a day and of a time of day that occur in the pages, the fields they parse to
DayOf ==
    [d \in {"01 May 2020", "1 May 2020", "02 May 2020"} |->
        IF d = "02 May 2020" THEN "20200502" ELSE "20200501"]
TimeOf ==
    [t \in {"12:00", "13:30"} |-> IF t = "12:00" THEN "1200" ELSE "1330"]
CompactDays == {"20200501", "20200502", "20151110"}
CompactTimes == {"1200", "1330", "1500"}

\* a failed call
Fail == [ymd |-> "", hm |-> ""]

\* datetime.strptime(s, "%H:%M on %d %b %Y")
strptime_London(s) ==
    IF /\ Len(s) = 3
       /\ s[1] \in DOMAIN TimeOf
       /\ s[2] = " on "
       /\ s[3] \in DOMAIN DayOf
    THEN [ymd |-> DayOf[s[3]], hm |-> TimeOf[s[1]]]
    ELSE Fail

\* datetime.strptime(s, "%Y%m%d/%H%MZ")
strptime_Test(s) ==
    IF /\ Len(s) = 4
       /\ s[1] \in CompactDays
       /\ s[2] = "/"
       /\ s[3] \in CompactTimes
       /\ s[4] = "Z"
    THEN [ymd |-> s[1], hm |-> s[3]]
    ELSE Fail

\* datetime.datetime.now(): the program is started at 10:00
datetime_now == [ymd |-> "20261104", hm |-> ToString(1000 + now)]

\* date.strftime("%Y%m%d%H%M")
strftime_compact(date) == <<date.ymd, date.hm>>

\* str(date), date.strftime("%Y-%m-%d %H:%M:%S")
strftime_iso(date) == <<date.ymd, " ", date.hm, ":00">>

\* urllib.parse.urljoin(base, url) for the shapes of url a page holds: empty,
\* absolute, rooted at the host, or relative to the directory of base
urljoin(base, url) ==
    IF url = <<>> THEN base
    ELSE IF Head(url) = "http:" THEN url
    ELSE IF Head(url) = "/" THEN SubSeq(base, 1, 4) \o url
    ELSE LET slashes == {i \in 1..Len(base) : base[i] = "/"}
             last == CHOOSE i \in slashes : \A j \in slashes : j <= i
         IN  SubSeq(base, 1, last) \o url

-----------------------------------------------------------------------------
(* Fetcher *)

\* Fetcher.hasExistingFile(output_dir, href); os.path.join(output_dir, name)
\* ends with ".html" exactly when name does, and os.path.exists is asked for
\* a name in the output directory
hasExistingFile_Append(href) ==
    LET file_name == FromEnd(Split(href, "/"), 1)
    IN  (file_name \o <<".kml">>) \in files

hasExistingFile(href) ==
    LET file_name == FromEnd(Split(href, "/"), 1)
        kml_file  == IF endswith(file_name, ".html")
                     THEN Replace(file_name, ".html", ".kml")
                     ELSE file_name \o <<".kml">>
    IN  kml_file \in files

\* Window.convertAdvisories: the name, in the output directory, of the KML
\* file it writes for an item
convert_kml_file(item) ==
    LET href      == item.filename
        file_name == FromEnd(Split(href, "/"), 1)
    IN  IF endswith(file_name, ".html")
        THEN Replace(file_name, ".html", ".kml")
        ELSE file_name \o <<".kml">>

\* item.setText(item.text() + " " + translate("Fetcher", "(converted)"))
MarkConverted(text) == text \o <<" ", "(converted)">>

\* the QListWidgetItem a fetcher builds: its text and the attributes set on it
Item(text, filename, url, content, vag) ==
    [ text     |-> IF hasExistingFile(filename) THEN MarkConverted(text) ELSE text,
      filename |-> filename,
      url      |-> url,
      content  |-> content,
      vag      |-> vag ]

\* "%s (%s)" % (date, volcano)
Title(date, volcano) == date \o <<" (">> \o volcano \o <<")">>

\* the test "count == self.number_to_fetch" that leaves the loop
LimitReached_OffByOne(c) == c = number_to_fetch + 1

LimitReached(c) == c = number_to_fetch

\* read_message(url): the text VAAParser extracts from the advisory page;
\* urlopen raises URLError when the page cannot be fetched
Bodies == { <<>>, <<"VA ADVISORY", " ", "w", " ", "NXT ADVISORY:", " ", "w", "\n">> }

\* fetch() ends with an exception
Raise(type, site) ==
    /\ pc' = "raised"
    /\ exc' = [type |-> type, site |-> site]
    /\ UNCHANGED <<idx, count, vaaList>>

\* the loop body skips the entry (continue, or a false condition)
Skip ==
    /\ idx' = idx + 1
    /\ UNCHANGED <<pc, count, vaaList, exc>>

\* vaaList.addItem(item); count += 1; if count == number_to_fetch: break
AddItem(item) ==
    /\ vaaList' = Append(vaaList, item)
    /\ count' = count + 1
    /\ idx' = idx + 1
    /\ pc' = IF LimitReached(count + 1) THEN "done" ELSE pc
    /\ UNCHANGED exc

-----------------------------------------------------------------------------
(* ToulouseFetcher.fetch *)

\* the (href, volcano, date) tuples ListParser can return: an advisory
\* link, a link without a directory part, and an item without a link
ToulouseAnchors ==
    { <<Href1, <<"v">>, <<"2020-05-01 12:00">> >>,
      <<Href2, <<"v">>, <<"2020-05-02 13:30">> >>,
      << <<"f.html">>, <<"v">>, <<"2020-05-01 12:00">> >>,
      << <<>>, <<"v">>, <<"2020-05-01 12:00">> >> }

\* the body of the loop over p.anchors, for one anchor
ToulouseFetcher_fetch_item ==
    /\ fetcher = "Toulouse"
    /\ pc = "fetch"
    /\ idx < Len(entries)
    /\ LET href    == entries[idx + 1][1]
           volcano == entries[idx + 1][2]
           date    == entries[idx + 1][3]
           info    == Split(href, "/")
       IN  IF Len(info) < 2
           THEN Raise("IndexError", "info[-2]")
           ELSE \/ Raise("URLError", "read_message")
                \/ \E content \in Bodies :
                      AddItem(Item(Title(date, volcano),
                                   <<"toulouse.">> \o FromEnd(info, 2) \o <<".html">>,
                                   href,
                                   content,
                                   Join(SubSeq(info, 1, Len(info) - 2), "/")
                                       \o <<"/">> \o FromEnd(info, 2) \o <<"_vag.png">>))
    /\ UNCHANGED <<fetcher, entries, files, now, run, prev>>
    /\ UNCHANGED <<pvars, cvars>>

-----------------------------------------------------------------------------
(* AnchorageFetcher.fetch *)

AnchorageUrl == <<"http:", "/", "/", "vaac.arh.noaa.gov", "/", "list_vaas.php">>

\* the (href, text, table_row) tuples Parser can return.  text is the list
\* of the text chunks of the cell of the anchor and table_row the list of
\* the cells of its row, each cell such a list of chunks.
AnchorageAnchors ==
    { << <<"VAA", "/", "f1.txt">>, << <<"X">> >>,
         << << <<"2020-05-01 12:00:00">> >>, << <<"Mt_v">> >>, << <<"X">> >> >> >>,
      << <<"VAA", "/", "f2.txt">>, << <<"X">> >>,
         << << <<"garbled">> >>, << <<"Mt_v">> >>, << <<"X">> >> >> >>,
      << <<"VAA", "/", "f3.txt">>, << <<"X">> >>, <<>> >>,
      << <<"f4.txt">>, << <<"X">> >>, <<>> >>,
      << <<"SIGMET", "/", "f5.txt">>, << <<"X">> >>, <<>> >>,
      << <<"index.html">>, << <<"home">> >>, <<>> >> }

\* text == "X" and href.split("/")[-2] == "VAA", once the split has two pieces
AnchorageSelected(a) ==
    /\ Concat(a[2]) = <<"X">>
    /\ FromEnd(Split(a[1], "/"), 2) = <<"VAA">>

\* the body of the loop over p.anchors, for one anchor.  table_text[0] is the
\* list Parser.handle_endtag appended to the row, never a str, so strptime
\* raises TypeError for every row that has a cell; the statements after it
\* are never reached.
AnchorageFetcher_fetch_item ==
    /\ fetcher = "Anchorage"
    /\ pc = "fetch"
    /\ idx < Len(entries)
    /\ LET a          == entries[idx + 1]
           table_text == a[3]
       IN  IF Concat(a[2]) = <<"X">>
           THEN IF Len(Split(a[1], "/")) < 2
                THEN Raise("IndexError", "href.split")
                ELSE IF AnchorageSelected(a)
                     THEN IF Len(table_text) = 0
                          THEN Raise("IndexError", "table_text[0]")
                          ELSE Raise("TypeError", "strptime")
                     ELSE Skip
           ELSE Skip
    /\ UNCHANGED <<fetcher, entries, files, now, run, prev>>
    /\ UNCHANGED <<pvars, cvars>>

-----------------------------------------------------------------------------
(* LondonFetcher.fetch *)

LondonUrl ==
    <<"http:", "/", "/", "www.metoffice.gov.uk", "/", "aviation", "/", "vaac", "/",
      "vaacuk.html">>

Cell(text, href) == [text |-> text, href |-> href]

\* the rows TableParser can return: a row is a non-empty list of cells
LondonRows ==
    { << Cell(<<"v">>, <<>>), Cell(<<"12:00", " on ", "01 May 2020">>, <<>>),
         Cell(<<>>, <<"data", "/", "a1.html">>), Cell(<<>>, <<"data", "/", "g1.png">>) >>,
      << Cell(<<"v">>, <<>>), Cell(<<"13:30", " on ", "02 May 2020">>, <<>>),
         Cell(<<>>, <<"data", "/", "a2.html">>), Cell(<<>>, <<>>) >>,
      << Cell(<<"v">>, <<>>), Cell(<<"2020-05-01 12:00">>, <<>>),
         Cell(<<>>, <<"data", "/", "a3.html">>), Cell(<<>>, <<>>) >>,
      << Cell(<<"v">>, <<>>), Cell(<<"12:00", " on ", "1 May 2020">>, <<>>) >>,
      << Cell(<<"v">>, <<>>) >> }

\* the try block: row[1]['text'] parsed; the bare except catches the
\* IndexError of a one-cell row as well as the ValueError of strptime
LondonDate(row) ==
    IF Len(row) < 2 THEN Fail ELSE strptime_London(row[2].text)

\* the body of the loop over p.rows, for one row
LondonFetcher_fetch_item ==
    /\ fetcher = "London"
    /\ pc = "fetch"
    /\ idx < Len(entries)
    /\ LET row     == entries[idx + 1]
           volcano == row[1].text
           date    == LondonDate(row)
       IN  IF date = Fail
           THEN Skip
           ELSE IF Len(row) < 3
                THEN Raise("IndexError", "row[2]")
                ELSE IF Len(row) < 4
                     THEN Raise("IndexError", "row[3]")
                     ELSE LET advisory_url == urljoin(LondonUrl, row[3].href)
                              graphic_url  == urljoin(LondonUrl, row[4].href)
                          IN  \/ Raise("URLError", "read_message")
                              \/ \E content \in Bodies :
                                    AddItem(Item(Title(strftime_iso(date), volcano),
                                                 <<"london.">> \o strftime_compact(date),
                                                 advisory_url,
                                                 content,
                                                 graphic_url))
    /\ UNCHANGED <<fetcher, entries, files, now, run, prev>>
    /\ UNCHANGED <<pvars, cvars>>

-----------------------------------------------------------------------------
(* TestFetcher.fetch *)

TestUrl ==
    <<"https:", "/", "/", "github.com", "/", "metno", "/", "fetch-vaa", "/", "raw",
      "/", "master", "/", "files", "/", "london-201511101500.vaa.txt">>

\* the texts the URL can deliver
TestTexts ==
    { <<"DTG:", " ", "20151110", "/", "1500", "Z", "\n", "VOLCANO:", " ", "v", "\n", "w">>,
      <<"VOLCANO:", " ", "v", "\n", "w">>,
      <<"DTG:", " ", "w", "\n", "VOLCANO:", " ", "v">> }

\* the loop over the lines: [date, volcano] after the lines, date = Fail
\* once a strptime has raised
RECURSIVE TestLines(_, _, _)
TestLines(lines, date, volcano) ==
    IF lines = <<>> \/ date = Fail THEN [date |-> date, volcano |-> volcano]
    ELSE LET line == Head(lines)
             d == IF startswith(line, "DTG:")
                  THEN strptime_Test(lstrip(Tail(line)))
                  ELSE date
             v == IF startswith(line, "VOLCANO:")
                  THEN lstrip(Tail(line))
                  ELSE volcano
         IN  TestLines(Tail(lines), d, v)

\* the filename TestFetcher gives its item
TestFilename(date) == <<"test.">> \o strftime_compact(date)

TestFetcher_fetch ==
    /\ fetcher = "Test"
    /\ pc = "fetch"
    /\ LET text == entries
           r    == TestLines(Split(text, "\n"), datetime_now, <<"Unknown">>)
       IN  IF r.date = Fail
           THEN Raise("ValueError", "strptime")
           ELSE /\ vaaList' = Append(vaaList,
                                     Item(Title(strftime_iso(r.date), r.volcano),
                                          TestFilename(r.date),
                                          TestUrl,
                                          text,
                                          <<>>))
                /\ pc' = "done"
                /\ UNCHANGED <<idx, count, exc>>
    /\ UNCHANGED <<fetcher, entries, files, now, run, prev>>
    /\ UNCHANGED <<pvars, cvars>>

-----------------------------------------------------------------------------
(* Window.fetchAdvisories and the specification of a fetch *)

Fetchers == {"Toulouse", "Anchorage", "London", "Test"}

RECURSIVE SeqsUpTo(_, _)
SeqsUpTo(S, n) ==
    IF n = 0 THEN { <<>> }
    ELSE LET shorter == SeqsUpTo(S, n - 1)
         IN  shorter \cup {Append(q, x) : q \in shorter, x \in S}

\* the names a KML file in the output directory can have
KmlFiles ==
    { <<"toulouse.", "20200501", ".kml">>,
      <<"toulouse.", "20200501", ".html", ".kml">>,
      <<"london.", "20200501", "1200", ".kml">>,
      <<"test.", "20151110", "1500", ".kml">> }

\* no extractor instance is examined while a fetcher runs
ParserUnused ==
    /\ kind = "none"
    /\ nEvents = 0
    /\ ev = NoEv
    /\ VAAParser_init
    /\ ListParser_init
    /\ TableParser_init
    /\ Parser_init
    /\ NoHistory
    /\ feedNo = 0
    /\ buf = <<>>
    /\ pos = 0
    /\ first = <<>>

\* the window is shown, a page has been read and scanned by the extractor
\* of the chosen fetcher, and the output directory holds some KML file or none
InitFetch ==
    /\ ParserUnused
    /\ fetcher \in Fetchers
    /\ entries \in CASE fetcher = "Toulouse"  -> SeqsUpTo(ToulouseAnchors, MaxEntries)
                     [] fetcher = "Anchorage" -> SeqsUpTo(AnchorageAnchors, MaxEntries)
                     [] fetcher = "London"    -> SeqsUpTo(LondonRows, MaxEntries)
                     [] fetcher = "Test"      -> TestTexts
    /\ files \in { {} } \cup { {f} : f \in KmlFiles }
    /\ now = 0
    /\ run = "first"
    /\ prev = <<>>
    /\ pc = "idle"
    /\ idx = 0
    /\ count = 0
    /\ vaaList = <<>>
    /\ exc = NoExc
    /\ checked = {}
    /\ workLog = <<>>

\* Window.fetchAdvisories: the list is cleared and fetcher.fetch is entered
fetchAdvisories ==
    /\ pc = "idle"
    /\ vaaList' = <<>>
    /\ pc' = "fetch"
    /\ idx' = 0
    /\ count' = 0
    /\ exc' = NoExc
    /\ UNCHANGED <<fetcher, entries, files, now, run, prev>>
    /\ UNCHANGED <<pvars, cvars>>

\* the loop over the entries is exhausted: fetch() returns
fetch_return ==
    /\ fetcher # "Test"
    /\ pc = "fetch"
    /\ idx = Len(entries)
    /\ pc' = "done"
    /\ UNCHANGED <<fetcher, entries, files, now, run, prev, idx, count, vaaList, exc>>
    /\ UNCHANGED <<pvars, cvars>>

\* the user chooses the same source in the menu a second time, while the
\* source still serves the same page
fetch_again ==
    /\ pc \in {"done", "raised"}
    /\ run = "first"
    /\ run' = "second"
    /\ prev' = vaaList
    /\ pc' = "idle"
    /\ UNCHANGED <<fetcher, entries, files, now, idx, count, vaaList, exc>>
    /\ UNCHANGED <<pvars, cvars>>

\* time passes while the window is idle
tick ==
    /\ pc = "idle"
    /\ now < MaxClock
    /\ now' = now + 1
    /\ UNCHANGED <<fetcher, entries, files, run, prev, pc, idx, count, vaaList, exc>>
    /\ UNCHANGED <<pvars, cvars>>

NextFetch ==
    \/ fetchAdvisories
    \/ ToulouseFetcher_fetch_item
    \/ AnchorageFetcher_fetch_item
    \/ LondonFetcher_fetch_item
    \/ TestFetcher_fetch
    \/ fetch_return
    \/ fetch_again
    \/ tick

SpecFetch == InitFetch /\ [][NextFetch]_vars

-----------------------------------------------------------------------------
(* Window.convertAdvisories: the records of the list whose box is ticked   *)
(* are written to an HTML file and handed to /usr/bin/metno-vaa-kml.        *)

\* records in the list when the conversion starts
MaxItems == 2

\* filenames the fetchers give to records
ConvertFilenames ==
    { <<"london.", "20200501", "1200">>, <<"test.", "20151110", "1500">> }

\* how subprocess.check_call ends: it returns, or raises FileNotFoundError
\* (no converter), TimeoutExpired, or CalledProcessError (exit status # 0)
ConverterOutcomes ==
    {"ok", "FileNotFoundError", "TimeoutExpired", "CalledProcessError"}

\* QMessageBox.question: the answer to "Do you want to convert again?"
Replies == {"Yes", "No"}

\* vaa_file: the HTML file written for an item
convert_vaa_file(item) ==
    LET file_name == FromEnd(Split(item.filename, "/"), 1)
    IN  IF endswith(file_name, ".html") THEN file_name
        ELSE file_name \o <<".html">>

\* updateWorkLog(isOK, hasConverted, message): one entry in the log viewer;
\* item is the row the message was built for
LogEntry(i, isOK, hasConverted, message) ==
    [item |-> i, isOK |-> isOK, hasConverted |-> hasConverted, message |-> message]

\* the window after a fetch, with some boxes ticked by the user
InitConvert ==
    /\ ParserUnused
    /\ fetcher = "none"
    /\ entries = <<>>
    /\ files \in SUBSET {f \o <<".kml">> : f \in ConvertFilenames}
    /\ now = 0
    /\ run = "first"
    /\ vaaList \in SeqsUpTo({Item(<<"v">>, f, LondonUrl, c, <<>>) :
                               f \in ConvertFilenames, c \in Bodies}, MaxItems)
    /\ prev = vaaList
    /\ pc = "idle"
    /\ idx = 0
    /\ count = 0
    /\ exc = NoExc
    /\ checked \in SUBSET (1..Len(vaaList))
    /\ workLog = <<>>

\* the Convert button: convertAdvisories is entered
convertAdvisories ==
    /\ pc = "idle"
    /\ pc' = "convert"
    /\ idx' = 0
    /\ UNCHANGED <<fetcher, entries, files, now, run, prev, count, vaaList, exc>>
    /\ UNCHANGED <<pvars, cvars>>

\* one turn of the loop "for i in range(self.vaaList.count())"
convertAdvisories_item ==
    /\ pc = "convert"
    /\ idx < Len(vaaList)
    /\ LET i        == idx + 1
           item     == vaaList[i]
           kml_file == convert_kml_file(item)
           vaa_file == convert_vaa_file(item)
       IN  IF i \notin checked
           THEN /\ idx' = i
                /\ UNCHANGED <<pc, exc, files, vaaList, workLog>>
           ELSE \E reply \in Replies, fetched \in {"ok", "URLError"},
                   outcome \in ConverterOutcomes :
                IF kml_file \in files /\ reply = "No"
                THEN /\ workLog' = Append(workLog, LogEntry(i, TRUE, FALSE,
                            item.text \o <<" not converted. File already available in ">>
                                      \o kml_file))
                     /\ idx' = i
                     /\ UNCHANGED <<pc, exc, files, vaaList>>
                ELSE IF item.content = <<>> /\ fetched = "URLError"
                THEN /\ pc' = "raised"
                     /\ exc' = [type |-> "URLError", site |-> "urlopen"]
                     /\ UNCHANGED <<idx, files, vaaList, workLog>>
                ELSE LET content == IF item.content = <<>>
                                    THEN <<"VA ADVISORY", " ", "w">>
                                    ELSE item.content
                     IN  CASE outcome = "ok" ->
                                /\ files' = (files \ {vaa_file}) \cup {kml_file}
                                /\ vaaList' = [vaaList EXCEPT ![i] =
                                      [item EXCEPT !.content = content,
                                                   !.text = MarkConverted(item.text)]]
                                /\ workLog' = Append(workLog, LogEntry(i, TRUE, TRUE,
                                      item.text \o <<" converted. File available in ">>
                                                \o kml_file \o <<" 0 ">>))
                                /\ idx' = i
                                /\ UNCHANGED <<pc, exc>>
                           [] outcome \in {"FileNotFoundError", "TimeoutExpired"} ->
                                /\ files' = files \cup {vaa_file}
                                /\ vaaList' = [vaaList EXCEPT ![i].content = content]
                                /\ workLog' = Append(workLog, LogEntry(i, FALSE, FALSE,
                                      item.text \o <<" conversion failed ", outcome, ".">>))
                                /\ idx' = i
                                /\ UNCHANGED <<pc, exc>>
                           [] outcome = "CalledProcessError" ->
                                /\ files' = files \cup {vaa_file}
                                /\ vaaList' = [vaaList EXCEPT ![i].content = content]
                                /\ pc' = "raised"
                                /\ exc' = [type |-> outcome, site |-> "check_call"]
                                /\ UNCHANGED <<idx, workLog>>
    /\ UNCHANGED <<fetcher, entries, now, run, prev, count, checked>>
    /\ UNCHANGED pvars

\* the loop is exhausted: convertAdvisories returns
convertAdvisories_return ==
    /\ pc = "convert"
    /\ idx = Len(vaaList)
    /\ pc' = "converted"
    /\ UNCHANGED <<fetcher, entries, files, now, run, prev, idx, count, vaaList, exc>>
    /\ UNCHANGED <<pvars, cvars>>

NextConvert ==
    \/ convertAdvisories
    \/ convertAdvisories_item
    \/ convertAdvisories_return

SpecConvert == InitConvert /\ [][NextConvert]_vars

-----------------------------------------------------------------------------
(* Properties of the fetchers (SpecFetch) *)

ListFetchers == {"Toulouse", "Anchorage", "London"}

\* the entries the loop of fetch() builds a record for, unless it raises
Qualifies(e) ==
    CASE fetcher = "Toulouse"  -> TRUE
      [] fetcher = "Anchorage" -> Len(Split(e[1], "/")) >= 2 /\ AnchorageSelected(e)
      [] fetcher = "London"    -> LondonDate(e) # Fail
      [] OTHER                 -> FALSE

Qualifying == IF fetcher \in ListFetchers THEN SelectSeq(entries, Qualifies) ELSE <<>>

\* the advisory URL of the record built for an entry
EntryUrl(e) ==
    CASE fetcher = "Toulouse"  -> e[1]
      [] fetcher = "Anchorage" -> urljoin(AnchorageUrl, e[1])
      [] fetcher = "London"    -> IF Len(e) >= 3 THEN urljoin(LondonUrl, e[3].href) ELSE <<>>
      [] OTHER                 -> <<>>

\* C1: a fetch from Toulouse, Anchorage or London never puts more than
\* number_to_fetch records in the list; the records are those of the first
\* qualifying entries of the page, in document order; and a fetch that
\* returns has built a record for each of the first number_to_fetch
\* qualifying entries (for all of them when the page lists fewer).
C1_FetchLimit ==
    fetcher \in ListFetchers =>
        /\ Len(vaaList) <= number_to_fetch
        /\ Len(vaaList) <= Len(Qualifying)
        /\ \A i \in 1..Len(vaaList) : vaaList[i].url = EntryUrl(Qualifying[i])
        /\ pc = "done" => Len(vaaList) = Min(number_to_fetch, Len(Qualifying))

\* a fetch has returned with the list cut at the limit: the page lists more
\* qualifying entries than number_to_fetch
C1_Witness ==
    /\ fetcher \in ListFetchers
    /\ pc = "done"
    /\ Len(Qualifying) > number_to_fetch
    /\ Len(vaaList) = number_to_fetch

\* C4: in ToulouseFetcher.fetch and LondonFetcher.fetch, when the only
\* failures are failures to fetch the body of an advisory, the fetch ends
\* with a record for every qualifying entry up to the limit.
C4_BodyFailureKeepsRest ==
    ( /\ fetcher \in {"Toulouse", "London"}
      /\ pc \in {"done", "raised"}
      /\ exc.type \in {"", "URLError"} )
    => Len(vaaList) = Min(number_to_fetch, Len(Qualifying))

\* C5: in AnchorageFetcher.fetch and LondonFetcher.fetch, parsing the
\* timestamp of an entry never ends the fetch with an exception.
C5_BadTimestampSkipped ==
    (fetcher \in {"Anchorage", "London"} /\ pc = "raised") => exc.site # "strptime"

\* C6: whatever the list page holds, the fetch from it does not raise:
\* only a failure of the network ends a fetch with an exception.
C6_NoRaiseOnContent ==
    (fetcher \in ListFetchers /\ pc = "raised") => exc.type = "URLError"

\* the record is marked "(converted)"
Marked(item) == endswith(item.text, "(converted)")

\* C9: a record of the list is marked "(converted)" exactly when the
\* output directory holds the KML file convertAdvisories would write for it.
C9_ConvertedMark ==
    \A i \in 1..Len(vaaList) :
        Marked(vaaList[i]) <=> convert_kml_file(vaaList[i]) \in files

\* a fetch has built a record that is marked and one that is not
C9_Witness ==
    /\ pc = "done"
    /\ \E i \in 1..Len(vaaList) : Marked(vaaList[i])
    /\ \E i \in 1..Len(vaaList) : ~Marked(vaaList[i])

\* C10: the records of a second fetch of the same page from the same
\* source have the filenames the first fetch gave them.
C10_FilenameStable ==
    run = "second" =>
        \A i \in 1..Min(Len(vaaList), Len(prev)) :
            vaaList[i].filename = prev[i].filename

-----------------------------------------------------------------------------
(* Properties of the extractors (Spec, SpecFeedTwice) *)

\* the step delivers event e to the extractor
Delivers(e) == nEvents' = nEvents + 1 /\ ev' = e

\* C2: once VAAParser has found the NXT ADVISORY line and is inactive
\* again, no later event of the page changes the extracted text.
C2_TextFrozenAfterTerminal ==
    [][(kind = "VAAParser" /\ vaa_terminated /\ ~vaa_active)
          => vaa_text' = vaa_text]_vars

\* C3: when the page held a header followed by an NXT ADVISORY line, the
\* extracted text starts with the header phrase and ends at the end of the
\* first NXT ADVISORY line.
C3_ExtractedBlock ==
    (kind = "VAAParser" /\ vaa_terminated) =>
        /\ vaa_text # <<>>
        /\ Head(vaa_text) \in VaaHeaders
        /\ NxtSearch(vaa_text) = Len(vaa_text)

C8_SecondFeedSameResult ==
    (feedNo = 2 /\ pos = Len(buf)) => Result = first

\* C11: the result of TableParser holds no empty row; a <tbody> start tag
\* discards every row completed before it, and after it the result grows
\* only by the non-empty row a </tr> completes, so that the result is the
\* non-empty rows completed after the last <tbody>.
C11_LastTbodyRows ==
    [][kind = "TableParser" =>
        /\ \A i \in 1..Len(tp_rows') : tp_rows'[i] # <<>>
        /\ IF Delivers(StartEv("tbody", <<>>))
           THEN tp_rows' = <<>>
           ELSE IF Delivers(EndEv("tr")) /\ tp_row # <<>>
           THEN tp_rows' = Append(tp_rows, tp_row)
           ELSE tp_rows' = tp_rows]_vars

\* a second <tbody> discarded a completed row, and a row was completed
\* after it
C11_Witness ==
    /\ kind = "TableParser"
    /\ tp_discarded > 0
    /\ Len(tp_rows) > 0

ListExtractors == {"Parser", "ListParser", "TableParser"}

\* C12: while a row or list item is open (started and not yet closed), the
\* result holds no entry emitted since it started: if the page ends there,
\* nothing built from the partial row is in the result.
C12_NoPartialRow ==
    (kind \in ListExtractors /\ h_open) => Len(Result) <= h_mark

\* the tokens of the texts an entry holds, and the hrefs it holds
EntryTokens(e) ==
    CASE kind = "ListParser"  -> Tokens(e[2]) \cup Tokens(e[3])
      [] kind = "TableParser" -> UNION {Tokens(e[i].text) : i \in 1..Len(e)}
      [] kind = "Parser" ->
            LET Strs(l) == UNION {Tokens(l[i]) : i \in 1..Len(l)}
            IN  Strs(e[2]) \cup UNION {Strs(e[3][i]) : i \in 1..Len(e[3])}

EntryHrefs(e) ==
    CASE kind = "ListParser"  -> {e[1]} \ {<<>>}
      [] kind = "TableParser" -> {e[i].href : i \in 1..Len(e)} \ {<<>>}
      [] kind = "Parser"      -> {e[1]} \ {<<>>}

\* C13: an entry emitted while a row or list item is open holds only text
\* and hrefs the page delivered since that row or item started.
C13_OwnRowOnly ==
    [][(kind \in ListExtractors /\ h_open /\ Len(Result') > Len(Result)) =>
          LET e == Result'[Len(Result')]
          IN  /\ EntryTokens(e) \subseteq h_data
              /\ EntryHrefs(e) \subseteq h_hrefs]_vars

\* C15: whenever VAAParser appends a text chunk to the buffer, the buffer
\* is empty or ends with a space or a newline, so that two captured chunks
\* never run together.
C15_ChunksSeparated ==
    [][(/\ kind = "VAAParser"
        /\ vaa_active
        /\ nEvents' = nEvents + 1
        /\ ev'.kind = "data"
        /\ strip(ev'.data) # <<>>)
          => \/ vaa_text = <<>>
             \/ vaa_text[Len(vaa_text)] \in WhiteSpace]_vars

-----------------------------------------------------------------------------
(* Further properties of the fetchers (SpecFetch) *)

\* C14: no two records LondonFetcher.fetch puts in the list have the same
\* advisory URL.
C14_NoDuplicateUrls ==
    fetcher = "London" =>
        \A i, j \in 1..Len(vaaList) : i # j => vaaList[i].url # vaaList[j].url

-----------------------------------------------------------------------------
(* Properties of the conversion (SpecConvert) *)

\* the log entries written for row i of the list
LogEntries(i) == {k \in 1..Len(workLog) : workLog[k].item = i}

\* C16: whatever the converter does for each item, once convertAdvisories
\* has ended every checked item has exactly one work-log entry and no
\* unchecked item has one, and an item whose conversion failed has the text
\* it had before.  (A failure to download the body of an item is not an
\* outcome of the converter and is left aside.)
C16_EveryCheckedItemLogged ==
    (pc \in {"converted", "raised"} /\ exc.site # "urlopen") =>
        /\ \A i \in 1..Len(vaaList) :
              Cardinality(LogEntries(i)) = IF i \in checked THEN 1 ELSE 0
        /\ \A k \in 1..Len(workLog) :
              ~workLog[k].isOK => vaaList[workLog[k].item].text
                                    = prev[workLog[k].item].text

=============================================================================
